---- MODULE Spec2Model ----
(***************************************************************************)
(* A model of the travel interpreter of retribution                        *)
(* (src/src/game/interpreter.rs) over the map model (src/src/game/map.rs)  *)
(* and the game state (src/src/game/state.rs).                             *)
(*                                                                         *)
(* Strings are sequences of one-character strings, so that to_lowercase    *)
(* and format! are computed and not assumed.  Option<T> is a sequence of   *)
(* length 0 (None) or 1 (Some(x)).  Grid coordinates are the code's        *)
(* 0-based (row, col) pairs; a grid is a sequence of rows, so cell         *)
(* (row, col) is grid[row + 1][col + 1].                                   *)
(***************************************************************************)
EXTENDS Integers, Sequences, FiniteSets, TLC

VARIABLES
    mode,       \* GameState.mode
    map,        \* GameState.map  : Option<Map>
    room,       \* GameState.room : Option<(i32, i32)>
    pc,         \* "setup" (the caller populates the state), then "play"
    exit_code,  \* Option: the status the process exited with
    command,    \* Option: the command of the most recent interpreter call
    before,     \* Option: the GameState the most recent call started from
    output,     \* Option: the Result the most recent call returned
    loaded,     \* the load_map calls of that call: <<[name, ok], ...>>
    input,      \* Option: the most recent call into the language layer
    parsed,     \* Option: the Result that call returned
    aborted,    \* TRUE once a panic has aborted the process
    made,       \* Option: the Map that Map::new built and the sets changed
    call,       \* Option: the most recent call of a function of Map
    ret,        \* Option: what that call returned
    db,         \* Option: the rows of table maps; None while there is no table
    prior       \* Option: the interpreter call before the most recent one

vars ==
    <<mode, map, room, pc, exit_code, command, before, output, loaded,
      input, parsed, aborted, made, call, ret, db, prior>>

\* The variables of the map module: a map under construction, the calls
\* made and the database.
mapvars == <<made, call, ret, db>>

\* The variables of the language layer.
lang == <<input, parsed, aborted>>

\* ---------------------------------------------------------------- bounds

\* The caller may place the player at any (row, col) in 0..MaxCoord.
MaxCoord == 3

\* The largest number of rows and of columns given to Map::new.
MaxDim == 2

\* The most cells of one map that hold a square at a time.
MaxSquares == 2

\* ------------------------------------------------------------- Option<T>

None == <<>>

Some(x) == <<x>>

IsSome(o) == Len(o) = 1

Unwrap(o) == o[1]

\* --------------------------------------------------------------- strings

UpperChars ==
    <<"A", "B", "C", "D", "E", "F", "G", "H", "I", "J", "K", "L", "M",
      "N", "O", "P", "Q", "R", "S", "T", "U", "V", "W", "X", "Y", "Z">>

LowerChars ==
    <<"a", "b", "c", "d", "e", "f", "g", "h", "i", "j", "k", "l", "m",
      "n", "o", "p", "q", "r", "s", "t", "u", "v", "w", "x", "y", "z">>

\* char::to_lowercase on the ASCII letters; every other character is kept.
LowerChar(ch) ==
    IF \E i \in 1..Len(UpperChars) : UpperChars[i] = ch
    THEN LowerChars[CHOOSE i \in 1..Len(UpperChars) : UpperChars[i] = ch]
    ELSE ch

\* str::to_lowercase
to_lowercase(s) == [i \in 1..Len(s) |-> LowerChar(s[i])]

NORTH == <<"n", "o", "r", "t", "h">>

SOUTH == <<"s", "o", "u", "t", "h">>

EAST == <<"e", "a", "s", "t">>

WEST == <<"w", "e", "s", "t">>

\* "Not able to do that action right now."
NOT_ABLE ==
    <<"N", "o", "t", " ", "a", "b", "l", "e", " ", "t", "o", " ", "d", "o",
      " ", "t", "h", "a", "t", " ", "a", "c", "t", "i", "o", "n", " ",
      "r", "i", "g", "h", "t", " ", "n", "o", "w", ".">>

HERO_WENT == <<"H", "e", "r", "o", " ", "w", "e", "n", "t", " ">>

\* The message with the direction word lower-cased.
HeroWent_lowercased(target, description) ==
    HERO_WENT \o to_lowercase(target) \o <<".", " ">> \o description

\* format!("Hero went {}. {}", target, description)
HeroWent(target, description) ==
    HERO_WENT \o target \o <<".", " ">> \o description

\* Result<String, &str>
Ok(s) == [ok |-> TRUE, val |-> s]

Err(s) == [ok |-> FALSE, val |-> s]

\* ------------------------------------------------------------- map model

\* GridSquare::Room(Room { name, description })
Room(name, description) ==
    [kind |-> "Room", name |-> name, description |-> description]

\* GridSquare::Portal(Portal { name, target, location })
Portal(name, target, location) ==
    [kind |-> "Portal", name |-> name, target |-> target, location |-> location]

\* get_grid_square reading a negative index as 0.
get_grid_square_clamped(m, row, col) ==
    LET r == IF row < 0 THEN 0 ELSE row
        c == IF col < 0 THEN 0 ELSE col
    IN  IF Len(m.grid) <= r \/ Len(m.grid[1]) <= c THEN None
        ELSE m.grid[r + 1][c + 1]

\* Map::get_grid_square: None for a negative index, for a row at or past
\* grid.len() and for a column at or past the length of row 0; otherwise the
\* content of grid[row][col].
get_grid_square(m, row, col) ==
    IF col < 0 \/ row < 0 THEN None
    ELSE IF Len(m.grid) <= row \/ Len(m.grid[1]) <= col THEN None
    ELSE m.grid[row + 1][col + 1]

\* Map::new(name, rows, cols): rows rows of cols empty cells; a count
\* below 1 gives none.
Map_new(name, rows, cols) ==
    [name |-> name, grid |-> [r \in 1..rows |-> [c \in 1..cols |-> None]]]

\* "Index out of bounds."
INDEX_OUT_OF_BOUNDS ==
    <<"I", "n", "d", "e", "x", " ", "o", "u", "t", " ", "o", "f", " ", "b",
      "o", "u", "n", "d", "s", ".">>

\* What a call of set_grid_square leaves: whether it panicked, the map,
\* and the Result returned.
SetOutcome(panic, m, result) == [panic |-> panic, map |-> m, result |-> result]

\* set_grid_square writing the square into every cell of the row.
set_grid_square_whole_row(m, row, col, grid_square) ==
    IF Len(m.grid) < row
    THEN SetOutcome(FALSE, m, Err(INDEX_OUT_OF_BOUNDS))
    ELSE IF row = Len(m.grid)
    THEN SetOutcome(TRUE, m, None)
    ELSE IF Len(m.grid[row + 1]) < col
    THEN SetOutcome(FALSE, m, Err(INDEX_OUT_OF_BOUNDS))
    ELSE IF col = Len(m.grid[row + 1])
    THEN SetOutcome(TRUE, m, None)
    ELSE SetOutcome(FALSE,
            [m EXCEPT !.grid[row + 1] =
                [c \in 1..Len(m.grid[row + 1]) |-> Some(grid_square)]],
            Ok(<<>>))

\* Map::set_grid_square(row, col, grid_square), row and col being usize.
\* The check is `grid.len() < row || grid[row].len() < col`: indexing
\* grid[row] panics when row = grid.len(), and the write to grid[row][col]
\* panics when col = grid[row].len().
set_grid_square(m, row, col, grid_square) ==
    IF Len(m.grid) < row
    THEN SetOutcome(FALSE, m, Err(INDEX_OUT_OF_BOUNDS))
    ELSE IF row = Len(m.grid)
    THEN SetOutcome(TRUE, m, None)
    ELSE IF Len(m.grid[row + 1]) < col
    THEN SetOutcome(FALSE, m, Err(INDEX_OUT_OF_BOUNDS))
    ELSE IF col = Len(m.grid[row + 1])
    THEN SetOutcome(TRUE, m, None)
    ELSE SetOutcome(FALSE,
            [m EXCEPT !.grid[row + 1][col + 1] = Some(grid_square)],
            Ok(<<>>))

D(ch) == <<"R", "o", "o", "m", " ", ch, ".">>

\* A map of five rooms in a plus shape with portals around them.
\*        col 0              col 1   col 2             col 3
\* row 0  Portal A -> Cave   Room    Portal B -> Cave  (empty)
\* row 1  Room               Room    Room              Portal F -> Cave
\* row 2  Portal C -> Nowhere Room   Portal D -> Cave  Portal E -> Cave
\* A leads to a room, B to an empty cell, D to a portal, E past the last
\* column and F to a negative row of Cave; no map is named Nowhere.
Hub ==
    [name |-> "Hub",
     grid |-> <<
        << Some(Portal("A", "Cave", <<1, 0>>)), Some(Room("h1", D("1"))),
           Some(Portal("B", "Cave", <<0, 0>>)), None >>,
        << Some(Room("h2", D("2"))), Some(Room("h0", D("0"))),
           Some(Room("h3", D("3"))), Some(Portal("F", "Cave", <<-1, 0>>)) >>,
        << Some(Portal("C", "Nowhere", <<0, 0>>)), Some(Room("h4", D("4"))),
           Some(Portal("D", "Cave", <<1, 1>>)), Some(Portal("E", "Cave", <<1, 2>>)) >>
     >>]

\* The map the portals of Hub lead to: (1, 0) and (0, 1) are rooms, (0, 0) is
\* empty and (1, 1) is a portal back to the middle room of Hub.
Cave ==
    [name |-> "Cave",
     grid |-> <<
        << None, Some(Room("c1", D("5"))) >>,
        << Some(Room("c0", D("6"))), Some(Portal("G", "Hub", <<1, 1>>)) >>
     >>]

\* A town of five rooms in a plus shape.  The portal at (0, 2) leads to the
\* first room of Mine and the portal at (2, 0) to the middle room of Town
\* itself.
\*        col 0            col 1   col 2
\* row 0  (empty)          Room    Portal -> Mine (0, 0)
\* row 1  Room             Room    Room
\* row 2  Portal -> Town   Room    (empty)
Town ==
    [name |-> "Town",
     grid |-> <<
        << None, Some(Room("t1", D("a"))),
           Some(Portal("Shaft", "Mine", <<0, 0>>)) >>,
        << Some(Room("t2", D("b"))), Some(Room("t0", D("c"))),
           Some(Room("t3", D("d"))) >>,
        << Some(Portal("Lane", "Town", <<1, 1>>)), Some(Room("t4", D("e"))),
           None >>
     >>]

\* The map under Town: two rooms, and a portal at (1, 0) up to the room
\* (0, 1) of Town.
Mine ==
    [name |-> "Mine",
     grid |-> <<
        << Some(Room("m0", D("f"))), Some(Room("m1", D("g"))) >>,
        << Some(Portal("Ladder", "Town", <<0, 1>>)), None >>
     >>]

\* Map::new("Void", 0, 0): a map without rows.
Void == [name |-> "Void", grid |-> <<>>]

\* The maps a caller may put into the state.
Maps == {Hub, Cave, Void}

\* The rows of the maps table: name -> map.  No row is named "Nowhere".
Database == {Hub, Cave, Town, Mine}

\* load_map(map_name, None): Err when the database cannot be opened or
\* queried (dbOk = FALSE) or holds no row of that name, else Ok(Map).
load_map(map_name, dbOk) ==
    IF dbOk /\ \E m \in Database : m.name = map_name
    THEN [ok |-> TRUE, val |-> CHOOSE m \in Database : m.name = map_name]
    ELSE [ok |-> FALSE, val |-> "No map found."]

\* ------------------------------------------------------------ game state

Modes == {"Combat", "Menu", "Travel"}

\* struct GameState { mode, map, room }
GameState(md, m, r) == [mode |-> md, map |-> m, room |-> r]

\* GameState::new()
GameState_new == GameState("Travel", None, None)

State == GameState(mode, map, room)

\* -------------------------------------------------------------- commands

\* Command::Go(GoCommand { target, .. })
GoCommand(target) == [variant |-> "Go", target |-> target]

\* Command::Exit(ExitCommand { .. })
ExitCommand == [variant |-> "Exit"]

\* The variants of enum Command that are neither Go nor Exit.
OtherVariants ==
    {"Aid", "Cast", "Defend", "DefyDanger", "DiscernRealities", "Drop",
     "HackAndSlash", "Help", "Interfere", "Parley", "Say", "SpoutLore",
     "Take", "Volley"}

\* The direction words a player types, in several spellings, and words that
\* are no direction.
GoTargets ==
    { NORTH, <<"N", "o", "r", "t", "h">>, <<"N", "O", "R", "T", "H">>,
      SOUTH, <<"S", "o", "u", "t", "h">>,
      EAST, <<"e", "A", "s", "T">>,
      WEST, <<"W", "E", "S", "T">>,
      <<"s", "i", "d", "e", "w", "a", "y", "s">>,
      <<"n", "o", "r", "t", "h", "s">>, <<"u", "p">>, <<>> }

Commands ==
    {GoCommand(t) : t \in GoTargets} \cup {ExitCommand}
        \cup {[variant |-> v] : v \in OtherVariants}

\* ----------------------------------------------------------- interpreter

\* What one call leaves behind: the GameState, the returned Result (None when
\* the call does not return), the load_map calls made, and the status
\* std::process::exit ended the process with (None while it runs).
Outcome(st, res, loads, exit) ==
    [state |-> st, result |-> res, loads |-> loads, exit |-> exit]

Returns(st, res, loads) == Outcome(st, Some(res), loads, None)

\* A rollback that restores the map and forgets the room.
rollback_map_only(st, original_map, original_coords) ==
    [st EXCEPT !.map = Some(original_map)]

\* A rollback that restores the map and leaves no room.
rollback_forgets_room(st, original_map, original_coords) ==
    [st EXCEPT !.map = Some(original_map), !.room = None]

\* state.map = Some(original_map); state.room = original_coords;
rollback(st, original_map, original_coords) ==
    [st EXCEPT !.map = Some(original_map), !.room = original_coords]

\* enter_map without line 55: the room stays on the portal's own cell.
enter_map_keeps_room(st, c, original_map, original_coords, new_map, new_coords, loads) ==
    LET st2 == [st EXCEPT !.map = Some(new_map)]
        grid_square_option ==
            get_grid_square(new_map, new_coords[1], new_coords[2])
    IN  IF grid_square_option = None
        THEN Returns(rollback(st2, original_map, original_coords),
                     Err(NOT_ABLE), loads)
        ELSE IF Unwrap(grid_square_option).kind = "Room"
        THEN Returns(st2,
               Ok(HeroWent(c.target, Unwrap(grid_square_option).description)),
               loads)
        ELSE Returns(st2, Err(NOT_ABLE), loads)

\* enter_map without lines 67-68: an absent destination square is not
\* rolled back.
enter_map_no_rollback(st, c, original_map, original_coords, new_map, new_coords, loads) ==
    LET st2 == [st EXCEPT !.map = Some(new_map), !.room = Some(new_coords)]
        grid_square_option ==
            get_grid_square(new_map, new_coords[1], new_coords[2])
    IN  IF IsSome(grid_square_option)
           /\ Unwrap(grid_square_option).kind = "Room"
        THEN Returns(st2,
               Ok(HeroWent(c.target, Unwrap(grid_square_option).description)),
               loads)
        ELSE Returns(st2, Err(NOT_ABLE), loads)

\* enter_map that asks load_map for the map of a portal found at the
\* destination.
enter_map_follows_portal(st, c, original_map, original_coords, new_map, new_coords, loads) ==
    LET st2 == [st EXCEPT !.map = Some(new_map), !.room = Some(new_coords)]
        grid_square_option ==
            get_grid_square(new_map, new_coords[1], new_coords[2])
    IN  IF grid_square_option = None
        THEN Returns(rollback(st2, original_map, original_coords),
                     Err(NOT_ABLE), loads)
        ELSE IF Unwrap(grid_square_option).kind = "Room"
        THEN Returns(st2,
               Ok(HeroWent(c.target, Unwrap(grid_square_option).description)),
               loads)
        ELSE Returns(st2, Err(NOT_ABLE),
               Append(loads, [name |-> Unwrap(grid_square_option).target,
                              ok |-> FALSE]))

\* The tail of handle_room_change, after load_map returned Ok(new_map):
\* lines 54-78.
enter_map(st, c, original_map, original_coords, new_map, new_coords, loads) ==
    LET st2 == [st EXCEPT !.map = Some(new_map), !.room = Some(new_coords)]
        grid_square_option ==
            get_grid_square(new_map, new_coords[1], new_coords[2])
    IN  IF grid_square_option = None
        THEN Returns(rollback(st2, original_map, original_coords),
                     Err(NOT_ABLE), loads)
        ELSE LET grid_square == Unwrap(grid_square_option)
             IN  IF grid_square.kind = "Room"
                 THEN Returns(st2,
                        Ok(HeroWent(c.target, grid_square.description)), loads)
                 ELSE Returns(st2, Err(NOT_ABLE), loads)

\* The portal branch without the restore of lines 49-50.
take_portal_no_restore(st, c, original_map, original_coords, portal, dbOk) ==
    LET new_coords == portal.location
        new_map == load_map(portal.target, dbOk)
        loads == <<[name |-> portal.target, ok |-> new_map.ok]>>
    IN  IF ~new_map.ok
        THEN Returns(st, Err(NOT_ABLE), loads)
        ELSE enter_map(st, c, original_map, original_coords,
                       new_map.val, new_coords, loads)

\* The portal branch of handle_room_change: lines 45-53, then enter_map.
\* The call of load_map is recorded with the name asked for and whether it
\* returned Ok.
take_portal(st, c, original_map, original_coords, portal, dbOk) ==
    LET new_coords == portal.location
        new_map == load_map(portal.target, dbOk)
        loads == <<[name |-> portal.target, ok |-> new_map.ok]>>
    IN  IF ~new_map.ok
        THEN Returns(rollback(st, original_map, original_coords),
                     Err(NOT_ABLE), loads)
        ELSE enter_map(st, c, original_map, original_coords,
                       new_map.val, new_coords, loads)

\* handle_room_change with the move made before the square is looked up.
handle_room_change_moves_first(st, c, new_coords, dbOk) ==
    LET original_coords == st.room
        st1 == [st EXCEPT !.room = Some(new_coords)]
    IN  IF st.map = None
        THEN Returns(st, Err(NOT_ABLE), <<>>)
        ELSE LET original_map == Unwrap(st.map)
                 new_room ==
                    get_grid_square(Unwrap(st.map), new_coords[1], new_coords[2])
             IN  IF new_room = None
                 THEN Returns(st1, Err(NOT_ABLE), <<>>)
                 ELSE IF Unwrap(new_room).kind = "Room"
                 THEN Returns(st1,
                        Ok(HeroWent(c.target, Unwrap(new_room).description)),
                        <<>>)
                 ELSE take_portal(st1, c, original_map, original_coords,
                                  Unwrap(new_room), dbOk)

\* The closure handle_room_change(new_coords) of travel_interpreter.
handle_room_change(st, c, new_coords, dbOk) ==
    LET original_coords == st.room
    IN  IF st.map = None
        THEN Returns(st, Err(NOT_ABLE), <<>>)
        ELSE LET original_map == Unwrap(st.map)
                 new_room ==
                    get_grid_square(Unwrap(st.map), new_coords[1], new_coords[2])
             IN  IF new_room = None
                 THEN Returns(st, Err(NOT_ABLE), <<>>)
                 ELSE LET st1 == [st EXCEPT !.room = Some(new_coords)]
                          new_grid_square == Unwrap(new_room)
                      IN  IF new_grid_square.kind = "Room"
                          THEN Returns(st1,
                                 Ok(HeroWent(c.target,
                                             new_grid_square.description)),
                                 <<>>)
                          ELSE take_portal(st1, c, original_map,
                                           original_coords, new_grid_square,
                                           dbOk)

\* The match with "south" leading north.
direction_south_is_north(target, row, col) ==
    LET word == to_lowercase(target)
    IN  IF word = NORTH THEN Some(<<row - 1, col>>)
        ELSE IF word = SOUTH THEN Some(<<row - 1, col>>)
        ELSE IF word = EAST THEN Some(<<row, col + 1>>)
        ELSE IF word = WEST THEN Some(<<row, col - 1>>)
        ELSE None

\* The match made on c.target itself, without to_lowercase().
direction_exact(target, row, col) ==
    IF target = NORTH THEN Some(<<row - 1, col>>)
    ELSE IF target = SOUTH THEN Some(<<row + 1, col>>)
    ELSE IF target = EAST THEN Some(<<row, col + 1>>)
    ELSE IF target = WEST THEN Some(<<row, col - 1>>)
    ELSE None

\* The match on c.target.to_lowercase() of travel_interpreter: the
\* coordinates a direction word leads to from (row, col), None for any
\* other word.
direction(target, row, col) ==
    LET word == to_lowercase(target)
    IN  IF word = NORTH THEN Some(<<row - 1, col>>)
        ELSE IF word = SOUTH THEN Some(<<row + 1, col>>)
        ELSE IF word = EAST THEN Some(<<row, col + 1>>)
        ELSE IF word = WEST THEN Some(<<row, col - 1>>)
        ELSE None

\* The Go arm without the check of state.room: an unset room counts as
\* (0, 0).
go_room_default(c, st, dbOk) ==
    LET row == IF st.room = None THEN 0 ELSE Unwrap(st.room)[1]
        col == IF st.room = None THEN 0 ELSE Unwrap(st.room)[2]
        new_coords == direction(c.target, row, col)
    IN  IF new_coords = None
        THEN Returns(st, Err(NOT_ABLE), <<>>)
        ELSE handle_room_change(st, c, Unwrap(new_coords), dbOk)

\* The Command::Go arm of travel_interpreter: lines 17-99.
go(c, st, dbOk) ==
    IF st.room = None
    THEN Returns(st, Err(NOT_ABLE), <<>>)
    ELSE LET row == Unwrap(st.room)[1]
             col == Unwrap(st.room)[2]
             new_coords == direction(c.target, row, col)
         IN  IF new_coords = None
             THEN Returns(st, Err(NOT_ABLE), <<>>)
             ELSE handle_room_change(st, c, Unwrap(new_coords), dbOk)

\* travel_interpreter whose last arm exits instead of refusing.
travel_interpreter_exit_default(c, st, dbOk) ==
    IF c.variant = "Go" THEN go(c, st, dbOk)
    ELSE Outcome(st, None, <<>>, Some(0))

\* travel_interpreter without the Command::Exit arm.
travel_interpreter_no_exit(c, st, dbOk) ==
    IF c.variant = "Go" THEN go(c, st, dbOk)
    ELSE Returns(st, Err(NOT_ABLE), <<>>)

\* travel_interpreter(command, state)
travel_interpreter(c, st, dbOk) ==
    IF c.variant = "Go" THEN go(c, st, dbOk)
    ELSE IF c.variant = "Exit" THEN Outcome(st, None, <<>>, Some(0))
    ELSE Returns(st, Err(NOT_ABLE), <<>>)

\* interpreter without the match on state.mode.
interpreter_any_mode(c, st, dbOk) == travel_interpreter(c, st, dbOk)

\* interpreter(command, state)
interpreter(c, st, dbOk) ==
    IF st.mode = "Travel"
    THEN travel_interpreter(c, st, dbOk)
    ELSE Returns(st, Err(NOT_ABLE), <<>>)

\* -------------------------------------------------------------- language

\* The keyword constants of the prompt language.
AID == <<"a", "i", "d">>

ASSIST == <<"a", "s", "s", "i", "s", "t">>

ATTACK == <<"a", "t", "t", "a", "c", "k">>

CAST == <<"c", "a", "s", "t">>

CHARM == <<"c", "h", "a", "r", "m">>

CONSULT == <<"c", "o", "n", "s", "u", "l", "t">>

DEFEND == <<"d", "e", "f", "e", "n", "d">>

DEFY == <<"d", "e", "f", "y">>

DODGE == <<"d", "o", "d", "g", "e">>

DROP == <<"d", "r", "o", "p">>

ENDURE == <<"e", "n", "d", "u", "r", "e">>

FIGHT == <<"f", "i", "g", "h", "t">>

GO == <<"g", "o">>

HELP == <<"h", "e", "l", "p">>

HIT == <<"h", "i", "t">>

INTERFERE == <<"i", "n", "t", "e", "r", "f", "e", "r", "e">>

IMPROVISE == <<"i", "m", "p", "r", "o", "v", "i", "s", "e">>

PARLEY == <<"p", "a", "r", "l", "e", "y">>

PROTECT == <<"p", "r", "o", "t", "e", "c", "t">>

SAY == <<"s", "a", "y">>

SEARCH == <<"s", "e", "a", "r", "c", "h">>

SHOOT == <<"s", "h", "o", "o", "t">>

STUDY == <<"s", "t", "u", "d", "y">>

VOLLEY == <<"v", "o", "l", "l", "e", "y">>

\* The keyword "take" (the name TAKE is reserved in TLA+).
TAKE_ == <<"t", "a", "k", "e">>

\* ExitCommand.name, "exit".
EXIT == <<"e", "x", "i", "t">>

\* char::is_whitespace on the characters an input line holds.
Whitespace == {" ", "\t", "\n", "\r"}

\* The tokens of s[i..], given the token cur that is being read.
RECURSIVE split_from(_, _, _)
split_from(s, i, cur) ==
    IF i > Len(s)
    THEN IF cur = <<>> THEN <<>> ELSE <<cur>>
    ELSE IF s[i] \in Whitespace
    THEN IF cur = <<>>
         THEN split_from(s, i + 1, <<>>)
         ELSE <<cur>> \o split_from(s, i + 1, <<>>)
    ELSE split_from(s, i + 1, Append(cur, s[i]))

\* tokenize(line): line.split_whitespace().collect()
tokenize(line) == split_from(line, 1, <<>>)

\* [String]::join(sep)
RECURSIVE join(_, _)
join(words, sep) ==
    IF Len(words) = 0 THEN <<>>
    ELSE IF Len(words) = 1 THEN words[1]
    ELSE words[1] \o sep \o join(Tail(words), sep)

\* "Aid an ally in a fight."
Aid_description ==
    <<"A", "i", "d", " ", "a", "n", " ", "a", "l", "l", "y", " ", "i", "n",
      " ", "a", " ", "f", "i", "g", "h", "t", ".">>

\* "Cast a spell."
Cast_description ==
    <<"C", "a", "s", "t", " ", "a", " ", "s", "p", "e", "l", "l", ".">>

\* "Defend an ally in a fight."
Defend_description ==
    <<"D", "e", "f", "e", "n", "d", " ", "a", "n", " ", "a", "l", "l", "y",
      " ", "i", "n", " ", "a", " ", "f", "i", "g", "h", "t", ".">>

\* "Defy danger using a stat."
DefyDanger_description ==
    <<"D", "e", "f", "y", " ", "d", "a", "n", "g", "e", "r", " ", "u", "s",
      "i", "n", "g", " ", "a", " ", "s", "t", "a", "t", ".">>

\* "Discern realities about a subject."
DiscernRealities_description ==
    <<"D", "i", "s", "c", "e", "r", "n", " ", "r", "e", "a", "l", "i", "t",
      "i", "e", "s", " ", "a", "b", "o", "u", "t", " ", "a", " ", "s", "u",
      "b", "j", "e", "c", "t", ".">>

\* "Drops an item from the player's inventory."
Drop_description ==
    <<"D", "r", "o", "p", "s", " ", "a", "n", " ", "i", "t", "e", "m", " ",
      "f", "r", "o", "m", " ", "t", "h", "e", " ", "p", "l", "a", "y", "e",
      "r", "'", "s", " ", "i", "n", "v", "e", "n", "t", "o", "r", "y", ".">>

\* "Exits the game."
Exit_description ==
    <<"E", "x", "i", "t", "s", " ", "t", "h", "e", " ", "g", "a", "m", "e",
      ".">>

\* "Moves the player to a new location."
Go_description ==
    <<"M", "o", "v", "e", "s", " ", "t", "h", "e", " ", "p", "l", "a", "y",
      "e", "r", " ", "t", "o", " ", "a", " ", "n", "e", "w", " ", "l", "o",
      "c", "a", "t", "i", "o", "n", ".">>

\* "Attack an enemy with a melee weapon."
HackAndSlash_description ==
    <<"A", "t", "t", "a", "c", "k", " ", "a", "n", " ", "e", "n", "e", "m",
      "y", " ", "w", "i", "t", "h", " ", "a", " ", "m", "e", "l", "e", "e",
      " ", "w", "e", "a", "p", "o", "n", ".">>

\* "Prints a list of commands or the description of a command."
Help_description ==
    <<"P", "r", "i", "n", "t", "s", " ", "a", " ", "l", "i", "s", "t", " ",
      "o", "f", " ", "c", "o", "m", "m", "a", "n", "d", "s", " ", "o", "r",
      " ", "t", "h", "e", " ", "d", "e", "s", "c", "r", "i", "p", "t", "i",
      "o", "n", " ", "o", "f", " ", "a", " ", "c", "o", "m", "m", "a", "n",
      "d", ".">>

\* "Interfere with an enemy's attack."
Interfere_description ==
    <<"I", "n", "t", "e", "r", "f", "e", "r", "e", " ", "w", "i", "t", "h",
      " ", "a", "n", " ", "e", "n", "e", "m", "y", "'", "s", " ", "a", "t",
      "t", "a", "c", "k", ".">>

\* "Parley with an enemy."
Parley_description ==
    <<"P", "a", "r", "l", "e", "y", " ", "w", "i", "t", "h", " ", "a", "n",
      " ", "e", "n", "e", "m", "y", ".">>

\* "Prints a message to the screen."
Say_description ==
    <<"P", "r", "i", "n", "t", "s", " ", "a", " ", "m", "e", "s", "s", "a",
      "g", "e", " ", "t", "o", " ", "t", "h", "e", " ", "s", "c", "r", "e",
      "e", "n", ".">>

\* "Spout lore about a subject."
SpoutLore_description ==
    <<"S", "p", "o", "u", "t", " ", "l", "o", "r", "e", " ", "a", "b", "o",
      "u", "t", " ", "a", " ", "s", "u", "b", "j", "e", "c", "t", ".">>

\* "Takes an item from the current location."
Take_description ==
    <<"T", "a", "k", "e", "s", " ", "a", "n", " ", "i", "t", "e", "m", " ",
      "f", "r", "o", "m", " ", "t", "h", "e", " ", "c", "u", "r", "r", "e",
      "n", "t", " ", "l", "o", "c", "a", "t", "i", "o", "n", ".">>

\* "Attack an enemy with a ranged weapon."
Volley_description ==
    <<"A", "t", "t", "a", "c", "k", " ", "a", "n", " ", "e", "n", "e", "m",
      "y", " ", "w", "i", "t", "h", " ", "a", " ", "r", "a", "n", "g", "e",
      "d", " ", "w", "e", "a", "p", "o", "n", ".">>

\* "Not enough arguments for "
NOT_ENOUGH ==
    <<"N", "o", "t", " ", "e", "n", "o", "u", "g", "h", " ", "a", "r", "g",
      "u", "m", "e", "n", "t", "s", " ", "f", "o", "r", " ">>

\* " command."
COMMAND_DOT ==
    <<" ", "c", "o", "m", "m", "a", "n", "d", ".">>

\* "Not enough arguments for <what> command."
NotEnough(what) == NOT_ENOUGH \o what \o COMMAND_DOT

\* "Command not found."
COMMAND_NOT_FOUND ==
    <<"C", "o", "m", "m", "a", "n", "d", " ", "n", "o", "t", " ", "f", "o",
      "u", "n", "d", ".">>

CHARISMA == <<"c", "h", "a", "r", "i", "s", "m", "a">>

WISDOM == <<"w", "i", "s", "d", "o", "m">>

DEXTERITY == <<"d", "e", "x", "t", "e", "r", "i", "t", "y">>

CONSTITUTION == <<"c", "o", "n", "s", "t", "i", "t", "u", "t", "i", "o", "n">>

INTELLIGENCE == <<"i", "n", "t", "e", "l", "l", "i", "g", "e", "n", "c", "e">>

WORDS_DEFY_DANGER == <<"d", "e", "f", "y", " ", "d", "a", "n", "g", "e", "r">>

WORDS_DISCERN_REALITIES == <<"d", "i", "s", "c", "e", "r", "n", " ", "r", "e", "a", "l", "i", "t", "i", "e", "s">>

WORDS_HACK_AND_SLASH == <<"h", "a", "c", "k", " ", "a", "n", "d", " ", "s", "l", "a", "s", "h">>

WORDS_SPOUT_LORE == <<"s", "p", "o", "u", "t", " ", "l", "o", "r", "e">>

\* AidCommand::build(sentence)
AidCommand_build(sentence) ==
    IF Len(sentence) < 2
    THEN Err(NotEnough(AID))
    ELSE Ok([variant |-> "Aid",
             name |-> sentence[1],
             description |-> Aid_description,
             target |-> sentence[2]])

\* CastCommand::build accepting a spell without a target.
CastCommand_build_two(sentence) ==
    IF Len(sentence) < 2
    THEN Err(NotEnough(CAST))
    ELSE Ok([variant |-> "Cast",
             name |-> CAST,
             description |-> Cast_description,
             spell_name |-> sentence[2],
             target |-> IF Len(sentence) <= 2 THEN None
                        ELSE Some(sentence[3])])

\* CastCommand::build(sentence)
CastCommand_build(sentence) ==
    IF Len(sentence) < 3
    THEN Err(NotEnough(CAST))
    ELSE Ok([variant |-> "Cast",
             name |-> CAST,
             description |-> Cast_description,
             spell_name |-> sentence[2],
             target |-> IF Len(sentence) <= 2 THEN None
                        ELSE Some(sentence[3])])

\* DefendCommand::build(sentence)
DefendCommand_build(sentence) ==
    IF Len(sentence) < 2
    THEN Err(NotEnough(CAST))
    ELSE Ok([variant |-> "Defend",
             name |-> sentence[1],
             description |-> Defend_description,
             target |-> sentence[2]])

\* The match on name without its arm for "defy".
stat_of_no_defy(name) ==
    IF name = CHARM THEN CHARISMA
    ELSE IF name = DODGE THEN DEXTERITY
    ELSE IF name = ENDURE THEN CONSTITUTION
    ELSE IF name = IMPROVISE THEN INTELLIGENCE
    ELSE DEXTERITY

\* The match on name of DefyDangerCommand::build.
stat_of(name) ==
    IF name = CHARM THEN CHARISMA
    ELSE IF name = DEFY THEN WISDOM
    ELSE IF name = DODGE THEN DEXTERITY
    ELSE IF name = ENDURE THEN CONSTITUTION
    ELSE IF name = IMPROVISE THEN INTELLIGENCE
    ELSE DEXTERITY

\* DefyDangerCommand::build(sentence)
DefyDangerCommand_build(sentence) ==
    IF Len(sentence) < 1
    THEN Err(NotEnough(WORDS_DEFY_DANGER))
    ELSE Ok([variant |-> "DefyDanger",
             name |-> sentence[1],
             description |-> DefyDanger_description,
             target |-> IF Len(sentence) = 1 THEN None
                        ELSE Some(sentence[2]),
             stat |-> stat_of(sentence[1])])

\* DiscernRealitiesCommand::build(sentence)
DiscernRealitiesCommand_build(sentence) ==
    IF Len(sentence) < 1
    THEN Err(NotEnough(WORDS_DISCERN_REALITIES))
    ELSE Ok([variant |-> "DiscernRealities",
             name |-> sentence[1],
             description |-> DiscernRealities_description,
             target |-> IF Len(sentence) <= 1 THEN None
                        ELSE Some(sentence[2])])

\* DropCommand::build(sentence)
DropCommand_build(sentence) ==
    IF Len(sentence) < 2
    THEN Err(NotEnough(DROP))
    ELSE Ok([variant |-> "Drop",
             name |-> DROP,
             description |-> Drop_description,
             target |-> sentence[2]])

\* ExitCommand::build()
ExitCommand_build ==
    Ok([variant |-> "Exit", name |-> EXIT, description |-> Exit_description])

\* GoCommand::build taking the last token as the target.
GoCommand_build_last(sentence) ==
    IF Len(sentence) < 2
    THEN Err(NotEnough(GO))
    ELSE Ok([variant |-> "Go",
             name |-> GO,
             description |-> Go_description,
             target |-> sentence[Len(sentence)]])

\* GoCommand::build(sentence)
GoCommand_build(sentence) ==
    IF Len(sentence) < 2
    THEN Err(NotEnough(GO))
    ELSE Ok([variant |-> "Go",
             name |-> GO,
             description |-> Go_description,
             target |-> sentence[2]])

\* HackAndSlashCommand::build naming every attack "attack".
HackAndSlashCommand_build_canonical(sentence) ==
    IF Len(sentence) < 2
    THEN Err(NotEnough(WORDS_HACK_AND_SLASH))
    ELSE Ok([variant |-> "HackAndSlash",
             name |-> ATTACK,
             description |-> HackAndSlash_description,
             target |-> SubSeq(sentence, 2, Len(sentence))])

\* HackAndSlashCommand::build(sentence)
HackAndSlashCommand_build(sentence) ==
    IF Len(sentence) < 2
    THEN Err(NotEnough(WORDS_HACK_AND_SLASH))
    ELSE Ok([variant |-> "HackAndSlash",
             name |-> sentence[1],
             description |-> HackAndSlash_description,
             target |-> SubSeq(sentence, 2, Len(sentence))])

\* HelpCommand::build requiring a target.
HelpCommand_build_needs_target(sentence) ==
    IF Len(sentence) < 2
    THEN Err(NotEnough(HELP))
    ELSE Ok([variant |-> "Help",
             name |-> HELP,
             description |-> Help_description,
             target |-> Some(sentence[2])])

\* HelpCommand::build(sentence)
HelpCommand_build(sentence) ==
    IF Len(sentence) < 1
    THEN Err(NotEnough(HELP))
    ELSE Ok([variant |-> "Help",
             name |-> HELP,
             description |-> Help_description,
             target |-> IF Len(sentence) <= 1 THEN None
                        ELSE Some(sentence[2])])

\* InterfereCommand::build(sentence)
InterfereCommand_build(sentence) ==
    IF Len(sentence) < 2
    THEN Err(NotEnough(INTERFERE))
    ELSE Ok([variant |-> "Interfere",
             name |-> INTERFERE,
             description |-> Interfere_description,
             target |-> sentence[2]])

\* ParleyCommand::build(sentence)
ParleyCommand_build(sentence) ==
    IF Len(sentence) < 2
    THEN Err(NotEnough(PARLEY))
    ELSE Ok([variant |-> "Parley",
             name |-> PARLEY,
             description |-> Parley_description,
             target |-> sentence[2]])

\* SayCommand::build keeping only the first word said.
SayCommand_build_one_word(sentence) ==
    IF Len(sentence) < 2
    THEN Err(NotEnough(SAY))
    ELSE Ok([variant |-> "Say",
             name |-> SAY,
             description |-> Say_description,
             target |-> sentence[2]])

\* SayCommand::build(sentence)
SayCommand_build(sentence) ==
    IF Len(sentence) < 2
    THEN Err(NotEnough(SAY))
    ELSE Ok([variant |-> "Say",
             name |-> SAY,
             description |-> Say_description,
             target |-> join(SubSeq(sentence, 2, Len(sentence)), <<" ">>)])

\* SpoutLoreCommand::build(sentence)
SpoutLoreCommand_build(sentence) ==
    IF Len(sentence) < 1
    THEN Err(NotEnough(WORDS_SPOUT_LORE))
    ELSE Ok([variant |-> "SpoutLore",
             name |-> sentence[1],
             description |-> SpoutLore_description,
             target |-> IF Len(sentence) <= 1 THEN None
                        ELSE Some(sentence[2])])

\* TakeCommand::build(sentence)
TakeCommand_build(sentence) ==
    IF Len(sentence) < 2
    THEN Err(NotEnough(TAKE_))
    ELSE Ok([variant |-> "Take",
             name |-> TAKE_,
             description |-> Take_description,
             target |-> sentence[2]])

\* VolleyCommand::build(sentence)
VolleyCommand_build(sentence) ==
    IF Len(sentence) < 2
    THEN Err(NotEnough(VOLLEY))
    ELSE Ok([variant |-> "Volley",
             name |-> sentence[1],
             description |-> Volley_description,
             target |-> sentence[2]])

\* The variants whose build takes the tokens of a line.
BuiltVariants ==
    {"Aid", "Cast", "Defend", "DefyDanger", "DiscernRealities", "Drop", "Go",
     "HackAndSlash", "Help", "Interfere", "Parley", "Say", "SpoutLore",
     "Take", "Volley"}

\* <Variant>Command::build(sentence), by variant.
build(variant, sentence) ==
    CASE variant = "Aid" -> AidCommand_build(sentence)
      [] variant = "Cast" -> CastCommand_build(sentence)
      [] variant = "Defend" -> DefendCommand_build(sentence)
      [] variant = "DefyDanger" -> DefyDangerCommand_build(sentence)
      [] variant = "DiscernRealities" -> DiscernRealitiesCommand_build(sentence)
      [] variant = "Drop" -> DropCommand_build(sentence)
      [] variant = "Go" -> GoCommand_build(sentence)
      [] variant = "HackAndSlash" -> HackAndSlashCommand_build(sentence)
      [] variant = "Help" -> HelpCommand_build(sentence)
      [] variant = "Interfere" -> InterfereCommand_build(sentence)
      [] variant = "Parley" -> ParleyCommand_build(sentence)
      [] variant = "Say" -> SayCommand_build(sentence)
      [] variant = "SpoutLore" -> SpoutLoreCommand_build(sentence)
      [] variant = "Take" -> TakeCommand_build(sentence)
      [] variant = "Volley" -> VolleyCommand_build(sentence)

\* The match with only the first word of each arm.
arm_first_synonym(word) ==
    IF word = AID THEN Some("Aid")
    ELSE IF word = ATTACK THEN Some("HackAndSlash")
    ELSE IF word = CAST THEN Some("Cast")
    ELSE IF word = CONSULT THEN Some("SpoutLore")
    ELSE IF word = CHARM THEN Some("DefyDanger")
    ELSE IF word = DEFEND THEN Some("Defend")
    ELSE IF word = DROP THEN Some("Drop")
    ELSE IF word = GO THEN Some("Go")
    ELSE IF word = HELP THEN Some("Help")
    ELSE IF word = INTERFERE THEN Some("Interfere")
    ELSE IF word = PARLEY THEN Some("Parley")
    ELSE IF word = SAY THEN Some("Say")
    ELSE IF word = SEARCH THEN Some("DiscernRealities")
    ELSE IF word = SHOOT THEN Some("Volley")
    ELSE IF word = TAKE_ THEN Some("Take")
    ELSE None

\* The match made on the lower-cased first token.
arm_ignores_case(token) ==
    LET word == to_lowercase(token)
    IN
    IF word \in {AID, ASSIST} THEN Some("Aid")
    ELSE IF word \in {ATTACK, FIGHT, HIT} THEN Some("HackAndSlash")
    ELSE IF word = CAST THEN Some("Cast")
    ELSE IF word = CONSULT THEN Some("SpoutLore")
    ELSE IF word \in {CHARM, DEFY, DODGE, ENDURE, IMPROVISE}
    THEN Some("DefyDanger")
    ELSE IF word \in {DEFEND, PROTECT} THEN Some("Defend")
    ELSE IF word = DROP THEN Some("Drop")
    ELSE IF word = GO THEN Some("Go")
    ELSE IF word = HELP THEN Some("Help")
    ELSE IF word = INTERFERE THEN Some("Interfere")
    ELSE IF word = PARLEY THEN Some("Parley")
    ELSE IF word = SAY THEN Some("Say")
    ELSE IF word \in {SEARCH, STUDY} THEN Some("DiscernRealities")
    ELSE IF word \in {SHOOT, VOLLEY} THEN Some("Volley")
    ELSE IF word = TAKE_ THEN Some("Take")
    ELSE None

\* The arms of the match on tokens[0] in parse_input: the variant a first
\* token is dispatched to, None for the wildcard arm.
arm(word) ==
    IF word \in {AID, ASSIST} THEN Some("Aid")
    ELSE IF word \in {ATTACK, FIGHT, HIT} THEN Some("HackAndSlash")
    ELSE IF word = CAST THEN Some("Cast")
    ELSE IF word = CONSULT THEN Some("SpoutLore")
    ELSE IF word \in {CHARM, DEFY, DODGE, ENDURE, IMPROVISE}
    THEN Some("DefyDanger")
    ELSE IF word \in {DEFEND, PROTECT} THEN Some("Defend")
    ELSE IF word = DROP THEN Some("Drop")
    ELSE IF word = GO THEN Some("Go")
    ELSE IF word = HELP THEN Some("Help")
    ELSE IF word = INTERFERE THEN Some("Interfere")
    ELSE IF word = PARLEY THEN Some("Parley")
    ELSE IF word = SAY THEN Some("Say")
    ELSE IF word \in {SEARCH, STUDY} THEN Some("DiscernRealities")
    ELSE IF word \in {SHOOT, VOLLEY} THEN Some("Volley")
    ELSE IF word = TAKE_ THEN Some("Take")
    ELSE None

\* A call that panicked, and a call that returned r.
Panicked == [panic |-> TRUE]

Returned(r) == [panic |-> FALSE, result |-> r]

\* parse_input(line): tokens[0] panics on a line without tokens.
parse_input(line) ==
    LET tokens == tokenize(line)
    IN  IF Len(tokens) = 0
        THEN Panicked
        ELSE LET v == arm(tokens[1])
             IN  IF v = None
                 THEN Returned(Err(COMMAND_NOT_FOUND))
                 ELSE Returned(build(Unwrap(v), tokens))

\* --------------------------------------------------------- state machine

Coords == (0 .. MaxCoord) \X (0 .. MaxCoord)

Init ==
    /\ mode = GameState_new.mode
    /\ map = GameState_new.map
    /\ room = GameState_new.room
    /\ pc = "setup"
    /\ exit_code = None
    /\ command = None
    /\ before = None
    /\ output = None
    /\ loaded = <<>>
    /\ input = None
    /\ parsed = None
    /\ aborted = FALSE
    /\ made = None
    /\ call = None
    /\ ret = None
    /\ db = None
    /\ prior = None

\* game_state.mode = ...; the caller chooses the mode before play.
SetMode(md) ==
    /\ pc = "setup"
    /\ mode' = md
    /\ UNCHANGED <<map, room, pc, exit_code, command, before, output, loaded>>
    /\ UNCHANGED lang
    /\ UNCHANGED mapvars
    /\ UNCHANGED prior

\* game_state.map = Some(m)
SetMap(m) ==
    /\ pc = "setup"
    /\ map' = Some(m)
    /\ UNCHANGED <<mode, room, pc, exit_code, command, before, output, loaded>>
    /\ UNCHANGED lang
    /\ UNCHANGED mapvars
    /\ UNCHANGED prior

\* game_state.room = Some((row, col))
SetRoom(r) ==
    /\ pc = "setup"
    /\ room' = Some(r)
    /\ UNCHANGED <<mode, map, pc, exit_code, command, before, output, loaded>>
    /\ UNCHANGED lang
    /\ UNCHANGED mapvars
    /\ UNCHANGED prior

\* One turn: interpreter(&command, &mut game_state).  No turn is taken once
\* the process has exited.
Interpret(c, dbOk) ==
    /\ exit_code = None
    /\ LET out == interpreter(c, State, dbOk)
       IN  /\ mode' = out.state.mode
           /\ map' = out.state.map
           /\ room' = out.state.room
           /\ output' = out.result
           /\ loaded' = out.loads
           /\ exit_code' = out.exit
    /\ pc' = "play"
    /\ command' = Some(c)
    /\ before' = Some(State)
    /\ UNCHANGED lang
    /\ UNCHANGED mapvars
    /\ UNCHANGED prior

Next ==
    \/ \E md \in Modes : SetMode(md)
    \/ \E m \in Maps : SetMap(m)
    \/ \E r \in Coords : SetRoom(r)
    \/ \E c \in Commands, dbOk \in BOOLEAN : Interpret(c, dbOk)

Spec == Init /\ [][Next]_vars

\* ------------------------------------------------------ language layer runs

\* The 25 keywords parse_input matches a first token against.
Keywords ==
    {AID, ASSIST, ATTACK, CAST, CHARM, CONSULT, DEFEND, DEFY, DODGE, DROP,
     ENDURE, FIGHT, GO, HELP, HIT, INTERFERE, IMPROVISE, PARLEY, PROTECT, SAY,
     SEARCH, SHOOT, STUDY, TAKE_, VOLLEY}

\* Words a player types after the first one.
goblin == <<"g", "o", "b", "l", "i", "n">>

fireball == <<"f", "i", "r", "e", "b", "a", "l", "l">>

hello == <<"h", "e", "l", "l", "o">>

world == <<"w", "o", "r", "l", "d">>

again == <<"a", "g", "a", "i", "n">>

\* First words: the keywords, "exit", and words that are no keyword.
FirstWords ==
    Keywords \cup {EXIT, <<"G", "o">>, <<"w", "a", "l", "k">>, <<"A", "T", "T", "A", "C", "K">>}

ArgLists ==
    {<<>>, <<goblin>>, <<fireball, goblin>>, <<hello, world, again>>}

\* The token lists given to build and typed as lines.
TokenLists ==
    {<<>>} \cup {<<w>> \o a : w \in FirstWords, a \in ArgLists}
           \cup {<<GO, d>> : d \in GoTargets \ {<<>>}}

\* A line as read_line stores it: the words, one space apart, and "\n".
PlainLine(tokens) == join(tokens, <<" ">>) \o <<"\n">>

\* The same words behind leading blanks, two blanks or a tab apart, with
\* trailing blanks and "\r\n".
UntidyLine(tokens) ==
    <<" ", "\t">> \o join(tokens, <<" ", "\t", " ">>) \o <<" ", "\r", "\n">>

\* The lines prompt returns; <<>> is what read_line leaves at end of input.
Lines ==
    {<<>>} \cup {PlainLine(t) : t \in TokenLists}
           \cup {UntidyLine(t) : t \in TokenLists}

\* The lines typed at the prompt of the game: every first word alone and
\* with one argument, and go with every direction word, tidy and untidy.
GameLines ==
    {<<>>, PlainLine(<<>>), UntidyLine(<<>>)}
        \cup {PlainLine(<<w>>) : w \in FirstWords}
        \cup {PlainLine(<<w, goblin>>) : w \in FirstWords}
        \cup {PlainLine(<<GO, d>>) : d \in GoTargets \ {<<>>}}
        \cup {UntidyLine(<<GO, d>>) : d \in GoTargets \ {<<>>}}

\* The record of a call of parse_input and of a call of a build.
ParseCall(line) == [fn |-> "parse_input", line |-> line]

BuildCall(variant, sentence) ==
    [fn |-> "build", variant |-> variant, tokens |-> sentence]

\* parse_input(line), called on its own.  A run of the language layer is
\* one call: the functions are pure, so a second call adds nothing.
ParseInput(line) ==
    /\ input = None
    /\ input' = Some(ParseCall(line))
    /\ LET p == parse_input(line)
       IN  IF p.panic
           THEN parsed' = None /\ aborted' = TRUE
           ELSE parsed' = Some(p.result) /\ aborted' = FALSE
    /\ UNCHANGED <<mode, map, room, pc, exit_code, command, before, output,
                   loaded>>
    /\ UNCHANGED mapvars
    /\ UNCHANGED prior

\* <Variant>Command::build(sentence), called on its own.
BuildCommand(variant, sentence) ==
    /\ input = None
    /\ input' = Some(BuildCall(variant, sentence))
    /\ parsed' = Some(build(variant, sentence))
    /\ aborted' = FALSE
    /\ UNCHANGED <<mode, map, room, pc, exit_code, command, before, output,
                   loaded>>
    /\ UNCHANGED mapvars
    /\ UNCHANGED prior

\* ExitCommand::build()
BuildExit ==
    /\ input = None
    /\ input' = Some(BuildCall("Exit", <<>>))
    /\ parsed' = Some(ExitCommand_build)
    /\ aborted' = FALSE
    /\ UNCHANGED <<mode, map, room, pc, exit_code, command, before, output,
                   loaded>>
    /\ UNCHANGED mapvars
    /\ UNCHANGED prior

ParseNext ==
    \/ \E line \in Lines : ParseInput(line)
    \/ \E variant \in BuiltVariants, sentence \in TokenLists :
            BuildCommand(variant, sentence)
    \/ BuildExit

ParseSpec == Init /\ [][ParseNext]_vars

\* ------------------------------------------------------------- game loop

\* main before its loop: the start map is loaded and the player is put on
\* (1, 1) of it.
GameInit ==
    /\ mode = GameState_new.mode
    /\ map = Some(Hub)
    /\ room = Some(<<1, 1>>)
    /\ pc = "play"
    /\ exit_code = None
    /\ command = None
    /\ before = None
    /\ output = None
    /\ loaded = <<>>
    /\ input = None
    /\ parsed = None
    /\ aborted = FALSE
    /\ made = None
    /\ call = None
    /\ ret = None
    /\ db = None
    /\ prior = None

\* One pass of the loop of main on a line that prompt returned: parse_input,
\* then on Ok the interpreter; on Err the loop prints and continues.  The
\* loop runs while the process has neither exited nor aborted.  The
\* interpreter variables describe the call of this pass, if it made one.
Turn(line, dbOk) ==
    /\ exit_code = None
    /\ ~aborted
    /\ UNCHANGED mapvars
    /\ UNCHANGED prior
    /\ input' = Some(ParseCall(line))
    /\ pc' = "play"
    /\ LET p == parse_input(line)
       IN  IF p.panic \/ ~p.result.ok
           THEN /\ aborted' = p.panic
                /\ parsed' = IF p.panic THEN None ELSE Some(p.result)
                /\ command' = None
                /\ before' = None
                /\ output' = None
                /\ loaded' = <<>>
                /\ UNCHANGED <<mode, map, room, exit_code>>
           ELSE LET c == p.result.val
                    out == interpreter(c, State, dbOk)
                IN  /\ aborted' = FALSE
                    /\ parsed' = Some(p.result)
                    /\ command' = Some(c)
                    /\ before' = Some(State)
                    /\ mode' = out.state.mode
                    /\ map' = out.state.map
                    /\ room' = out.state.room
                    /\ output' = out.result
                    /\ loaded' = out.loads
                    /\ exit_code' = out.exit

GameNext == \E line \in GameLines, dbOk \in BOOLEAN : Turn(line, dbOk)

GameSpec == GameInit /\ [][GameNext]_vars

\* ----------------------------------------------------------------- travel

\* The maps a journey starts on: every portal of Town and of Mine leads to
\* a room of a stored map.
TravelMaps == {Town, Mine}

\* The coordinates of the Room squares of a map.
RoomSquares(m) ==
    {rc \in Coords :
        LET sq == get_grid_square(m, rc[1], rc[2])
        IN  IsSome(sq) /\ Unwrap(sq).kind = "Room"}

\* A game in Travel mode whose player stands on a room of its map.
TravelInit ==
    /\ mode = "Travel"
    /\ \E m \in TravelMaps :
            /\ map = Some(m)
            /\ \E rc \in RoomSquares(m) : room = Some(rc)
    /\ pc = "play"
    /\ exit_code = None
    /\ command = None
    /\ before = None
    /\ output = None
    /\ loaded = <<>>
    /\ input = None
    /\ parsed = None
    /\ aborted = FALSE
    /\ made = None
    /\ call = None
    /\ ret = None
    /\ db = None
    /\ prior = None

\* One call of a journey: interpreter(&command, &mut game_state), the call
\* before it being kept in prior.
Travel(c, dbOk) ==
    /\ exit_code = None
    /\ LET out == interpreter(c, State, dbOk)
       IN  /\ mode' = out.state.mode
           /\ map' = out.state.map
           /\ room' = out.state.room
           /\ output' = out.result
           /\ loaded' = out.loads
           /\ exit_code' = out.exit
    /\ pc' = "play"
    /\ command' = Some(c)
    /\ before' = Some(State)
    /\ prior' = IF command = None THEN None
                ELSE Some([command |-> Unwrap(command),
                           before |-> Unwrap(before),
                           output |-> output])
    /\ UNCHANGED lang
    /\ UNCHANGED mapvars

TravelNext == \E c \in Commands, dbOk \in BOOLEAN : Travel(c, dbOk)

TravelSpec == TravelInit /\ [][TravelNext]_vars

\* ------------------------------------------------------ map construction

\* The row and column counts given to Map::new (i32) and the indices given
\* to get_grid_square (i32) and set_grid_square (usize).
Dims == -1 .. MaxDim

GetIndices == -1 .. MaxDim + 1

SetIndices == 0 .. MaxDim + 1

\* The squares put on a map.
Squares == {Room("r", D("7")), Portal("P", "Cave", <<0, 1>>)}

\* The number of cells of a map that hold a square.
Filled(m) ==
    Cardinality({rc \in (1..Len(m.grid)) \X (1..MaxDim + 1) :
                    /\ rc[2] <= Len(m.grid[rc[1]])
                    /\ m.grid[rc[1]][rc[2]] # None})

\* let mut map = Map::new(String::from("Test Area"), rows, cols);
MapNew(rows, cols) ==
    /\ made = None
    /\ made' = Some(Map_new("Test Area", rows, cols))
    /\ call' = Some([fn |-> "new", rows |-> rows, cols |-> cols])
    /\ ret' = None
    /\ UNCHANGED db
    /\ UNCHANGED <<mode, map, room, pc, exit_code, command, before, output,
                   loaded>>
    /\ UNCHANGED lang
    /\ UNCHANGED prior

\* map.get_grid_square(row, col)
GetGridSquare(row, col) ==
    /\ made # None
    /\ ~aborted
    /\ call' = Some([fn |-> "get", row |-> row, col |-> col,
                      on |-> Unwrap(made)])
    /\ ret' = Some(get_grid_square(Unwrap(made), row, col))
    /\ UNCHANGED <<made, db>>
    /\ UNCHANGED <<mode, map, room, pc, exit_code, command, before, output,
                   loaded>>
    /\ UNCHANGED lang
    /\ UNCHANGED prior

\* map.set_grid_square(row, col, grid_square); a panic aborts the process.
SetGridSquare(row, col, grid_square) ==
    /\ made # None
    /\ ~aborted
    /\ LET out == set_grid_square(Unwrap(made), row, col, grid_square)
       IN  /\ Filled(out.map) <= MaxSquares
           /\ made' = Some(out.map)
           /\ ret' = IF out.panic THEN None ELSE Some(out.result)
           /\ aborted' = out.panic
    /\ call' = Some([fn |-> "set", row |-> row, col |-> col,
                      square |-> grid_square, on |-> Unwrap(made)])
    /\ UNCHANGED <<mode, map, room, pc, exit_code, command, before, output,
                   loaded, input, parsed, db, prior>>

MapNext ==
    \/ \E rows \in Dims, cols \in Dims : MapNew(rows, cols)
    \/ \E row \in GetIndices, col \in GetIndices : GetGridSquare(row, col)
    \/ \E row \in SetIndices, col \in SetIndices, sq \in Squares :
            SetGridSquare(row, col, sq)

MapSpec == Init /\ [][MapNext]_vars

\* --------------------------------------------------------------- database

\* "This is room <n>."
ThisIsRoom(n) ==
    <<"T", "h", "i", "s", " ", "i", "s", " ", "r", "o", "o", "m", " ", n, ".">>

\* map.set_room(a, b, room) of test_area.  Map has no set_room in the
\* source at hand: the room goes to cell (a, b) or to cell (b, a), and
\* nothing else of the map changes.
set_room(m, a, b, r, rowFirst) ==
    IF rowFirst
    THEN [m EXCEPT !.grid[a + 1][b + 1] = Some(r)]
    ELSE [m EXCEPT !.grid[b + 1][a + 1] = Some(r)]

\* test_area(): a 3 x 3 map named "Test Area" with five rooms in a plus
\* shape.
test_area(rowFirst) ==
    LET m0 == Map_new("Test Area", 3, 3)
        m1 == set_room(m0, 1, 1, Room("Room 1", ThisIsRoom("1")), rowFirst)
        m2 == set_room(m1, 1, 0, Room("Room 2", ThisIsRoom("2")), rowFirst)
        m3 == set_room(m2, 1, 2, Room("Room 3", ThisIsRoom("3")), rowFirst)
        m4 == set_room(m3, 0, 1, Room("Room 4", ThisIsRoom("4")), rowFirst)
        m5 == set_room(m4, 2, 1, Room("Room 5", ThisIsRoom("5")), rowFirst)
    IN  m5

\* A row of table maps.
Row(name, grid) == [name |-> name, grid |-> grid]

\* INSERT OR IGNORE INTO maps (name, grid): name is the primary key.
insert_or_ignore(rows, row) ==
    IF \E r \in rows : r.name = row.name THEN rows ELSE rows \cup {row}

\* TestArea::up: the grid of test_area() is stored under the name
\* "test_area".
TestArea_up(rows, rowFirst) ==
    insert_or_ignore(rows, Row("test_area", test_area(rowFirst).grid))

\* What migrate_up leaves: the table and the Result returned.
Migrated(table, result) == [table |-> table, result |-> result]

\* migrate_up(path): CreateMapMigration::up (CREATE TABLE IF NOT EXISTS),
\* then TestArea::up; Err("Migration Error") when the database cannot be
\* opened or written (dbOk = FALSE).
migrate_up(table, dbOk, rowFirst) ==
    IF ~dbOk
    THEN Migrated(table, [ok |-> FALSE, val |-> "Migration Error"])
    ELSE LET created == IF table = None THEN {} ELSE Unwrap(table)
         IN  Migrated(Some(TestArea_up(created, rowFirst)),
                      [ok |-> TRUE, val |-> <<>>])

\* load_map(map_name, path) on the database at path: SELECT name, grid FROM
\* maps WHERE name = ?1, first row.
load_map_at(table, map_name, dbOk) ==
    IF ~dbOk THEN [ok |-> FALSE, val |-> "Unable to open database."]
    ELSE IF table = None
    THEN [ok |-> FALSE, val |-> "Unable to prepare statement."]
    ELSE IF \E r \in Unwrap(table) : r.name = map_name
    THEN LET row == CHOOSE r \in Unwrap(table) : r.name = map_name
         IN  [ok |-> TRUE, val |-> [name |-> row.name, grid |-> row.grid]]
    ELSE [ok |-> FALSE, val |-> "No map found."]

\* The rows a database may hold before the game first runs on it.
EarlierRows ==
    {Row("Cave", Cave.grid), Row("Hub", Hub.grid),
     Row("test_area", Map_new("test_area", 1, 1).grid)}

\* The map names asked for.
MapNames == {"Test Area", "test_area", "Cave", "Nowhere"}

\* The database file before the game runs: absent, or a table of earlier
\* rows.
StartInit ==
    /\ mode = GameState_new.mode
    /\ map = GameState_new.map
    /\ room = GameState_new.room
    /\ pc = "setup"
    /\ exit_code = None
    /\ command = None
    /\ before = None
    /\ output = None
    /\ loaded = <<>>
    /\ input = None
    /\ parsed = None
    /\ aborted = FALSE
    /\ made = None
    /\ call = None
    /\ ret = None
    /\ prior = None
    /\ db \in {None} \cup {Some(rows) : rows \in SUBSET EarlierRows}

\* game::init(): migration::map::migrate_up(None).  pc records that the
\* migration has run.
MigrateUp(dbOk, rowFirst) ==
    /\ pc = "setup"
    /\ LET out == migrate_up(db, dbOk, rowFirst)
       IN  /\ db' = out.table
           /\ ret' = Some(out.result)
           /\ pc' = IF out.result.ok THEN "migrated" ELSE pc
    /\ call' = Some([fn |-> "migrate_up", on |-> db])
    /\ UNCHANGED <<mode, map, room, exit_code, command, before, output,
                   loaded, made>>
    /\ UNCHANGED lang
    /\ UNCHANGED prior

\* map::load_map(map_name, None)
LoadMap(map_name, dbOk) ==
    /\ call' = Some([fn |-> "load_map", map_name |-> map_name,
                      dbOk |-> dbOk])
    /\ ret' = Some(load_map_at(db, map_name, dbOk))
    /\ UNCHANGED <<mode, map, room, pc, exit_code, command, before, output,
                   loaded, made, db>>
    /\ UNCHANGED lang
    /\ UNCHANGED prior

StartNext ==
    \/ \E dbOk \in BOOLEAN, rowFirst \in BOOLEAN : MigrateUp(dbOk, rowFirst)
    \/ \E map_name \in MapNames, dbOk \in BOOLEAN : LoadMap(map_name, dbOk)

StartSpec == StartInit /\ [][StartNext]_vars

\* ------------------------------------------------- vocabulary of the claims
\* These definitions state what the claims speak of without using the
\* operators of the interpreter above.

Called == command # None

Cmd == Unwrap(command)

Pre == Unwrap(before)

NotAbleError == output = Some(Err(NOT_ABLE))

FailedCall == Called /\ output # None /\ ~Unwrap(output).ok

\* Two characters that are the same letter, in either case.
SameLetter(a, b) ==
    \/ a = b
    \/ \E k \in 1..Len(UpperChars) : {a, b} = {UpperChars[k], LowerChars[k]}

\* t spells word, case-insensitively.
Spells(t, word) ==
    /\ Len(t) = Len(word)
    /\ \A i \in 1..Len(word) : SameLetter(t[i], word[i])

\* The (row, col) delta of a direction word, None for any other word.
Delta(t) ==
    IF Spells(t, NORTH) THEN Some(<<-1, 0>>)
    ELSE IF Spells(t, SOUTH) THEN Some(<<1, 0>>)
    ELSE IF Spells(t, EAST) THEN Some(<<0, 1>>)
    ELSE IF Spells(t, WEST) THEN Some(<<0, -1>>)
    ELSE None

\* The content of cell (row, col) of a map, None outside its grid.
Cell(m, row, col) ==
    IF /\ row >= 0
       /\ col >= 0
       /\ row < Len(m.grid)
       /\ col < Len(m.grid[row + 1])
    THEN m.grid[row + 1][col + 1]
    ELSE None

IsRoom(sq) == sq # None /\ Unwrap(sq).kind = "Room"

IsPortal(sq) == sq # None /\ Unwrap(sq).kind = "Portal"

\* The most recent call was a Go in Travel mode.
TravelGo == Called /\ Cmd.variant = "Go" /\ Pre.mode = "Travel"

\* ... with a map and a room set and a direction word as its target.
GoCase ==
    /\ TravelGo
    /\ Pre.map # None
    /\ Pre.room # None
    /\ Delta(Cmd.target) # None

\* The coordinates that Go asked for, and the square there on the map the
\* call started from.
Dest ==
    <<Unwrap(Pre.room)[1] + Unwrap(Delta(Cmd.target))[1],
      Unwrap(Pre.room)[2] + Unwrap(Delta(Cmd.target))[2]>>

DestSquare == Cell(Unwrap(Pre.map), Dest[1], Dest[2])

\* The call started with the player standing on a Room square.
OnRoom ==
    /\ Pre.map # None
    /\ Pre.room # None
    /\ IsRoom(Cell(Unwrap(Pre.map), Unwrap(Pre.room)[1], Unwrap(Pre.room)[2]))

\* The Go stepped onto a portal; ThePortal is that portal, TargetMap the
\* stored map of the name it leads to and ArrivalSquare the square at the
\* portal's destination coordinates on that map.
PortalCase == GoCase /\ IsPortal(DestSquare)

ThePortal == Unwrap(DestSquare)

LoadFailed == Len(loaded) = 1 /\ ~loaded[1].ok

LoadSucceeded == Len(loaded) = 1 /\ loaded[1].ok

TargetMap == CHOOSE m \in Database : m.name = ThePortal.target

ArrivalSquare ==
    Cell(TargetMap, ThePortal.location[1], ThePortal.location[2])

\* The language layer.  The most recent call was parse_input on Line, or a
\* build of Variant on Tokens; Res is the Result it returned.
ParseCalled == input # None /\ Unwrap(input).fn = "parse_input"

Built == input # None /\ Unwrap(input).fn = "build"

Line == Unwrap(input).line

Variant == Unwrap(input).variant

Tokens == Unwrap(input).tokens

Res == Unwrap(parsed)

Succeeded == parsed # None /\ Res.ok

FailedWith(msg) == parsed # None /\ ~Res.ok /\ Res.val = msg

Blank(char) == char \in {" ", "\t", "\n", "\r"}

\* The positions of a line where a word starts, and where that word ends.
WordStarts(l) ==
    {i \in 1..Len(l) : ~Blank(l[i]) /\ (i = 1 \/ Blank(l[i - 1]))}

WordEnd(l, i) ==
    CHOOSE j \in i..Len(l) :
        /\ \A k \in i..j : ~Blank(l[k])
        /\ j = Len(l) \/ Blank(l[j + 1])

\* The n-th word of a line, and the words of the line that was parsed.
WordAt(l, n) ==
    LET i == CHOOSE i \in WordStarts(l) :
                Cardinality({j \in WordStarts(l) : j < i}) = n - 1
    IN  SubSeq(l, i, WordEnd(l, i))

WordCount == Cardinality(WordStarts(Line))

Typed == [n \in 1..WordCount |-> WordAt(Line, n)]

\* The synonym table as the specification gives it.
TableVariant(w) ==
    CASE w \in {ATTACK, FIGHT, HIT} -> "HackAndSlash"
      [] w \in {CHARM, DEFY, DODGE, ENDURE, IMPROVISE} -> "DefyDanger"
      [] w \in {DEFEND, PROTECT} -> "Defend"
      [] w \in {SEARCH, STUDY} -> "DiscernRealities"
      [] w \in {SHOOT, VOLLEY} -> "Volley"
      [] w \in {AID, ASSIST} -> "Aid"
      [] w = CAST -> "Cast"
      [] w = CONSULT -> "SpoutLore"
      [] w = DROP -> "Drop"
      [] w = GO -> "Go"
      [] w = HELP -> "Help"
      [] w = INTERFERE -> "Interfere"
      [] w = PARLEY -> "Parley"
      [] w = SAY -> "Say"
      [] w = TAKE_ -> "Take"

\* The fewest tokens a variant's build accepts.
MinTokens(v) ==
    IF v = "Cast" THEN 3
    ELSE IF v \in {"DefyDanger", "DiscernRealities", "Help", "SpoutLore"}
    THEN 1
    ELSE 2

SingleTarget ==
    {"Go", "Take", "Drop", "Aid", "Defend", "Interfere", "Parley", "Volley"}

\* msg reads "Not enough arguments for ... command."
IsArityError(msg) ==
    /\ Len(msg) >= Len(NOT_ENOUGH) + Len(COMMAND_DOT)
    /\ SubSeq(msg, 1, Len(NOT_ENOUGH)) = NOT_ENOUGH
    /\ SubSeq(msg, Len(msg) - Len(COMMAND_DOT) + 1, Len(msg)) = COMMAND_DOT

\* The words that name a variant in its arity error.
VariantWords(v) ==
    CASE v = "Aid" -> AID
      [] v = "Cast" -> CAST
      [] v = "Defend" -> DEFEND
      [] v = "Drop" -> DROP
      [] v = "Go" -> GO
      [] v = "HackAndSlash" -> WORDS_HACK_AND_SLASH
      [] v = "Interfere" -> INTERFERE
      [] v = "Parley" -> PARLEY
      [] v = "Say" -> SAY
      [] v = "Take" -> TAKE_
      [] v = "Volley" -> VOLLEY

\* The variants the arity errors are listed for.
ArityVariants == SingleTarget \cup {"Cast", "HackAndSlash", "Say"}

ArityErrorOf(v) == NOT_ENOUGH \o VariantWords(v) \o COMMAND_DOT

\* The variants whose name is the first token, and the fixed keyword of
\* each of the others.
NamedByToken ==
    {"Aid", "Defend", "DefyDanger", "DiscernRealities", "HackAndSlash",
     "SpoutLore", "Volley"}

FixedName(v) ==
    CASE v = "Cast" -> CAST
      [] v = "Drop" -> DROP
      [] v = "Exit" -> EXIT
      [] v = "Go" -> GO
      [] v = "Help" -> HELP
      [] v = "Interfere" -> INTERFERE
      [] v = "Parley" -> PARLEY
      [] v = "Say" -> SAY
      [] v = "Take" -> TAKE_

\* The stat table of DefyDanger.
StatTable(w) ==
    CASE w = CHARM -> CHARISMA
      [] w = DEFY -> WISDOM
      [] w = DODGE -> DEXTERITY
      [] w = ENDURE -> CONSTITUTION
      [] w = IMPROVISE -> INTELLIGENCE
      [] OTHER -> DEXTERITY

OptionalTarget == {"DefyDanger", "DiscernRealities", "SpoutLore", "Help"}

\* The words after the first, one space apart.
RECURSIVE Spaced(_)
Spaced(words) ==
    IF Len(words) = 1 THEN words[1]
    ELSE Spaced(SubSeq(words, 1, Len(words) - 1))
            \o <<" ">> \o words[Len(words)]

Rest(words) == SubSeq(words, 2, Len(words))

\* The map under construction.  The most recent call of a function of Map
\* was f; Was is the map it was made on and Now the map since.
MapCalled(f) == call # None /\ Unwrap(call).fn = f

TheCall == Unwrap(call)

Was == TheCall.on

Now == Unwrap(made)

Rows(m) == Len(m.grid)

Cols(m) == IF Len(m.grid) = 0 THEN 0 ELSE Len(m.grid[1])

\* Every row of m has n cells.
Rectangular(m, n) == \A r \in 1..Len(m.grid) : Len(m.grid[r]) = n

AtLeastZero(n) == IF n < 0 THEN 0 ELSE n

SetSucceeded == MapCalled("set") /\ ret # None /\ Unwrap(ret).ok

\* Every portal of the maps a journey starts on leads to a Room square of
\* one of those maps.
PortalsLeadToRooms ==
    \A m \in TravelMaps, r \in 0..MaxCoord, c \in 0..MaxCoord :
        IsPortal(Cell(m, r, c)) =>
            \E t \in TravelMaps :
                /\ t.name = Unwrap(Cell(m, r, c)).target
                /\ t \in Database
                /\ IsRoom(Cell(t, Unwrap(Cell(m, r, c)).location[1],
                                  Unwrap(Cell(m, r, c)).location[2]))

\* The player stands on a Room square of the current map.
RestsOnRoom ==
    /\ map # None
    /\ room # None
    /\ IsRoom(Cell(Unwrap(map), Unwrap(room)[1], Unwrap(room)[2]))

\* The call before the most recent one, the squares A and B it moved the
\* player between, and the delta of its direction word.
Before == Unwrap(prior)

SquareA == Unwrap(Before.before.room)

PriorDelta == Unwrap(Delta(Before.command.target))

SquareB == <<SquareA[1] + PriorDelta[1], SquareA[2] + PriorDelta[2]>>

\* That call was a Go that succeeded by moving the player from the Room
\* square A to the Room square B next to it on the same map.
MovedAToB ==
    /\ prior # None
    /\ Before.command.variant = "Go"
    /\ Before.before.mode = "Travel"
    /\ Before.before.map # None
    /\ Before.before.room # None
    /\ Delta(Before.command.target) # None
    /\ IsRoom(Cell(Unwrap(Before.before.map), SquareA[1], SquareA[2]))
    /\ IsRoom(Cell(Unwrap(Before.before.map), SquareB[1], SquareB[2]))
    /\ Before.output # None
    /\ Unwrap(Before.output).ok
    /\ Pre.map = Before.before.map
    /\ Pre.room = Some(SquareB)

\* The most recent call is a Go in the opposite direction.
WentBack ==
    /\ Called
    /\ Cmd.variant = "Go"
    /\ Delta(Cmd.target) = Some(<<0 - PriorDelta[1], 0 - PriorDelta[2]>>)

\* ------------------------------------------------------------------ claims

\* C1: in Travel mode with a map and a room set, a Go in a valid direction
\* whose destination cell is empty or outside the grid (a negative row or
\* column included) returns "Not able to do that action right now." and
\* leaves the whole GameState as it was before the call.
C1_AbsentCellNoMutation ==
    (GoCase /\ DestSquare = None) => (NotAbleError /\ State = Pre)

\* A Go towards a negative row was refused.
C1_Witness ==
    /\ GoCase
    /\ DestSquare = None
    /\ Dest[1] < 0
    /\ NotAbleError

\* C2: when a Go steps onto a Portal square and the map loader fails for the
\* portal's target map, the call returns NotAbleError and state.map and
\* state.room are what they were before the call.
C2_LoadFailureRolledBack ==
    (PortalCase /\ LoadFailed) =>
        (NotAbleError /\ map = Pre.map /\ room = Pre.room)

\* The portal to the map no row is named after was stepped on.
C2_Witness ==
    /\ PortalCase
    /\ LoadFailed
    /\ ThePortal.target = "Nowhere"
    /\ room = Pre.room

\* "Hero went {target}. {description}" for the target as it was typed.
Narrative(sq) ==
    Some(Ok(HERO_WENT \o Cmd.target \o <<".", " ">> \o Unwrap(sq).description))

Stored(name) == \E m \in Database : m.name = name

\* The Go took a portal whose target map was loaded.
Arrived == PortalCase /\ Stored(ThePortal.target) /\ LoadSucceeded

\* C3: when a Go steps onto a Portal square, the loader succeeds and the
\* square at the portal's destination coordinates on the loaded map is a
\* Room, state.map becomes the loaded map, state.room the portal's
\* destination coordinates and the result is
\* "Hero went {target}. {description of the destination room}".
C3_PortalTraversal ==
    (Arrived /\ IsRoom(ArrivalSquare)) =>
        /\ map = Some(TargetMap)
        /\ room = Some(ThePortal.location)
        /\ output = Narrative(ArrivalSquare)

\* A portal was taken to a room of another map, away from the portal's cell.
C3_Witness ==
    /\ Arrived
    /\ IsRoom(ArrivalSquare)
    /\ map # Pre.map
    /\ room = Some(ThePortal.location)
    /\ ThePortal.location # Dest
    /\ output # None
    /\ Unwrap(output).ok

\* C4 as claimed: when the target map loads but the square at the portal's
\* destination is not a Room (empty, out of bounds or another Portal), the
\* Go fails with NotAbleError and the state remains on the loaded map at the
\* destination coordinates.  Stated for a player who stood on a Room square.
C4_AsClaimed ==
    (Arrived /\ OnRoom /\ ~IsRoom(ArrivalSquare)) =>
        /\ NotAbleError
        /\ map = Some(TargetMap)
        /\ room = Some(ThePortal.location)

\* C4 amended: when the target map loads but the square at the portal's
\* destination is not a Room, the Go fails with NotAbleError; if that square
\* is another Portal the state remains on the loaded map at the destination
\* coordinates, and if it is empty or out of bounds the state is rolled back
\* to the original map and room.
C4_BadDestination ==
    (Arrived /\ ~IsRoom(ArrivalSquare)) =>
        /\ NotAbleError
        /\ IF IsPortal(ArrivalSquare)
           THEN map = Some(TargetMap) /\ room = Some(ThePortal.location)
           ELSE map = Pre.map /\ room = Pre.room

\* A portal to an out-of-bounds destination of a loaded map was taken and the
\* state is back on the original map.
C4_Witness ==
    /\ Arrived
    /\ OnRoom
    /\ ArrivalSquare = None
    /\ ThePortal.location[1] < 0
    /\ Pre.map # Some(TargetMap)
    /\ State = Pre
    /\ NotAbleError

\* C5: when a Go in a valid direction lands on a Room square of the current
\* map, state.room is set to the new coordinates, state.map and state.mode
\* are unchanged, the map loader is not called, and the result is
\* "Hero went {target}. {room.description}" with the direction word exactly
\* as the player typed it.
C5_SameMapMove ==
    (GoCase /\ IsRoom(DestSquare)) =>
        /\ room = Some(Dest)
        /\ map = Pre.map
        /\ mode = Pre.mode
        /\ loaded = <<>>
        /\ output = Narrative(DestSquare)

\* A Go typed with capital letters moved the player to a room.
C5_Witness ==
    /\ GoCase
    /\ IsRoom(DestSquare)
    /\ Cmd.target = <<"N", "O", "R", "T", "H">>
    /\ room = Some(Dest)
    /\ room # Pre.room

\* C6 as claimed: whenever interpreter returns an error the GameState after
\* the call equals the GameState before it.  Stated for a player who stood on
\* a Room square.
C6_AsClaimed ==
    (FailedCall /\ OnRoom) => State = Pre

\* C7: a Go target is matched case-insensitively against north, south, east
\* and west, which move the player by (row, col) deltas (-1,0), (1,0), (0,1)
\* and (0,-1); any other target word fails with "Not able to do that action
\* right now." and changes no state.  The move is observed where the square
\* at the new coordinates is a Room.
C7_Directions ==
    TravelGo =>
        IF Delta(Cmd.target) = None
        THEN NotAbleError /\ State = Pre
        ELSE (Pre.map # None /\ Pre.room # None /\ IsRoom(DestSquare)) =>
                /\ room = Some(Dest)
                /\ output # None
                /\ Unwrap(output).ok

\* "WEST" moved the player one column to the left.
C7_Witness ==
    /\ GoCase
    /\ Cmd.target = <<"W", "E", "S", "T">>
    /\ room = Some(<<Unwrap(Pre.room)[1], Unwrap(Pre.room)[2] - 1>>)
    /\ output # None
    /\ Unwrap(output).ok

\* C8: while state.mode is Combat or Menu, interpreter returns NotAbleError
\* for every command variant, a valid Go and Exit included (the process is
\* not terminated), and leaves the GameState unchanged.
C8_NotTravelMode ==
    (Called /\ Pre.mode \in {"Combat", "Menu"}) =>
        /\ NotAbleError
        /\ exit_code = None
        /\ State = Pre

\* Exit was refused in Combat mode.
C8_Witness ==
    /\ Called
    /\ Pre.mode = "Combat"
    /\ Cmd.variant = "Exit"
    /\ NotAbleError

\* C9: in Travel mode every command variant other than Go and Exit returns
\* "Not able to do that action right now." and leaves the GameState
\* unchanged, whatever the current map and room are.
C9_UnsupportedCommand ==
    (/\ Called
     /\ Pre.mode = "Travel"
     /\ Cmd.variant \in
            {"Aid", "Cast", "Defend", "DefyDanger", "DiscernRealities",
             "Drop", "HackAndSlash", "Help", "Interfere", "Parley", "Say",
             "SpoutLore", "Take", "Volley"})
        => (NotAbleError /\ exit_code = None /\ State = Pre)

\* Say was refused with a map and a room set.
C9_Witness ==
    /\ Called
    /\ Pre.mode = "Travel"
    /\ Cmd.variant = "Say"
    /\ OnRoom
    /\ NotAbleError

\* C10: in Travel mode, interpreting an Exit command terminates the process
\* with a success status and returns no string; after it no further command
\* is processed.
C10_ExitTerminates ==
    /\ [](  (Called /\ Pre.mode = "Travel" /\ Cmd.variant = "Exit")
            => (exit_code = Some(0) /\ output = None) )
    /\ [][exit_code # None => UNCHANGED vars]_vars

\* The process exited with status 0 on Exit.
C10_Witness ==
    /\ Called
    /\ Pre.mode = "Travel"
    /\ Cmd.variant = "Exit"
    /\ exit_code = Some(0)
    /\ output = None

\* C12: a Go command issued while state.room is unset fails with "Not able
\* to do that action right now.", for every target word and whether or not
\* a map is set, and leaves the state unchanged (no map is loaded and the
\* process keeps running).
C12_GoWithoutRoom ==
    (Called /\ Cmd.variant = "Go" /\ Pre.room = None) =>
        /\ NotAbleError
        /\ State = Pre
        /\ loaded = <<>>
        /\ exit_code = None

\* A Go with a direction word was refused in Travel mode with a map set and
\* no room.
C12_Witness ==
    /\ TravelGo
    /\ Pre.room = None
    /\ Pre.map # None
    /\ Delta(Cmd.target) # None
    /\ NotAbleError

\* C13: the map loader is called exactly once per portal traversal: a Go
\* that steps onto a Portal square calls load_map exactly once, with the
\* portal's target map name, and every other call of the interpreter calls
\* it zero times; a portal found at the destination is not followed, so no
\* call makes more than one load.
C13_OneLoadPerTraversal ==
    Called =>
        IF PortalCase
        THEN Len(loaded) = 1 /\ loaded[1].name = ThePortal.target
        ELSE loaded = <<>>

\* A traversal whose destination square is itself a portal made one load.
C13_Witness ==
    /\ PortalCase
    /\ LoadSucceeded
    /\ IsPortal(ArrivalSquare)
    /\ Len(loaded) = 1

\* C11 as stated: a player who types "exit" in the game loop in Travel mode
\* gets the Exit command from parse_input and the process terminates.
C11_AsClaimed ==
    (ParseCalled /\ WordCount = 1 /\ Typed[1] = EXIT /\ mode = "Travel") =>
        /\ Succeeded
        /\ Res.val.variant = "Exit"
        /\ exit_code # None

\* C14 as stated: every line fed through parse_input and then interpreter,
\* an empty or whitespace-only line included, ends the turn with a returned
\* narrative or error string, and the process ends or aborts only when the
\* command is Exit.
C14_AsClaimed ==
    ParseCalled =>
        /\ ~aborted
        /\ exit_code # None => (Called /\ Cmd.variant = "Exit")
        /\ exit_code = None =>
                /\ parsed # None
                /\ Res.ok => output # None

\* C15: parse_input dispatches on the first token by the fixed synonym
\* table, and whenever the line has enough tokens for the variant the
\* result is Ok with exactly that variant.
C15_Dispatch ==
    (/\ ParseCalled
     /\ WordCount >= 1
     /\ Typed[1] \in Keywords
     /\ WordCount >= MinTokens(TableVariant(Typed[1])))
        => (Succeeded /\ Res.val.variant = TableVariant(Typed[1]))

\* "fight" with an argument was parsed as HackAndSlash.
C15_Witness ==
    /\ ParseCalled
    /\ WordCount = 2
    /\ Typed[1] = FIGHT
    /\ Succeeded
    /\ Res.val.variant = "HackAndSlash"

\* C16: for every non-empty line whose first token is not, exactly and
\* case-sensitively, one of the synonym-table words, parse_input returns
\* the error "Command not found.".
C16_CommandNotFound ==
    (/\ ParseCalled
     /\ WordCount >= 1
     /\ Typed[1] \notin Keywords \cup {EXIT})
        => FailedWith(COMMAND_NOT_FOUND)

\* "Go" with a capital letter and an argument was not found.
C16_Witness ==
    /\ ParseCalled
    /\ WordCount = 2
    /\ Spells(Typed[1], GO)
    /\ Typed[1] # GO
    /\ FailedWith(COMMAND_NOT_FOUND)

\* C17: for each single-target command (Go, Take, Drop, Aid, Defend,
\* Interfere, Parley, Volley), build with exactly 1 token fails with an
\* arity error, and build with 2 or more tokens succeeds with target equal
\* to tokens[1]; later tokens are ignored.
C17_SingleTarget ==
    (Built /\ Variant \in SingleTarget) =>
        /\ Len(Tokens) = 1 =>
                (parsed # None /\ ~Res.ok /\ IsArityError(Res.val))
        /\ Len(Tokens) >= 2 => (Succeeded /\ Res.val.target = Tokens[2])

\* Go was built from four tokens and its target is the second.
C17_Witness ==
    /\ Built
    /\ Variant = "Go"
    /\ Len(Tokens) = 4
    /\ Succeeded
    /\ Res.val.target = Tokens[2]
    /\ Tokens[2] # Tokens[4]

\* C18 as stated: when a variant's build is given too few tokens, the error
\* is "Not enough arguments for <command> command." with <command> naming
\* the variant being built, and parse_input returns that message unchanged.
C18_AsClaimed ==
    /\ (Built /\ Variant \in ArityVariants
            /\ Len(Tokens) < MinTokens(Variant))
            => FailedWith(ArityErrorOf(Variant))
    /\ (ParseCalled /\ WordCount >= 1 /\ Typed[1] \in Keywords
            /\ TableVariant(Typed[1]) \in ArityVariants
            /\ WordCount < MinTokens(TableVariant(Typed[1])))
            => FailedWith(ArityErrorOf(TableVariant(Typed[1])))

\* C19 as stated: for every command variant, a successful build(tokens)
\* sets the command's name to tokens[0].
C19_AsClaimed ==
    (Built /\ Variant # "Exit" /\ Succeeded) => Res.val.name = Tokens[1]

\* C19, amended: a successful build sets name to tokens[0] for the
\* variants that have synonyms or take their name from the sentence (Aid,
\* Defend, DefyDanger, DiscernRealities, HackAndSlash, SpoutLore, Volley)
\* and to the variant's own keyword for the others; a command that
\* parse_input returns always has the first token typed as its name.
C19_NameOfCommand ==
    /\ (Built /\ Succeeded) =>
            Res.val.name =
                IF Variant \in NamedByToken THEN Tokens[1]
                ELSE FixedName(Variant)
    /\ (ParseCalled /\ Succeeded) => Res.val.name = Typed[1]

\* HackAndSlash was built from "fight ..." and is named "fight".
C19_Witness ==
    /\ Built
    /\ Variant = "HackAndSlash"
    /\ Succeeded
    /\ Tokens[1] = FIGHT
    /\ Res.val.name = FIGHT

\* C20: DefyDanger's stat is a function of tokens[0] alone: charm gives
\* charisma, defy wisdom, dodge dexterity, endure constitution, improvise
\* intelligence and any other first token dexterity, whatever the target
\* and the later tokens are.
C20_Stat ==
    /\ (Built /\ Variant = "DefyDanger" /\ Succeeded) =>
            Res.val.stat = StatTable(Tokens[1])
    /\ (ParseCalled /\ Succeeded /\ Res.val.variant = "DefyDanger") =>
            Res.val.stat = StatTable(Typed[1])

\* "defy" with a target gave wisdom.
C20_Witness ==
    /\ Built
    /\ Variant = "DefyDanger"
    /\ Len(Tokens) = 2
    /\ Tokens[1] = DEFY
    /\ Succeeded
    /\ Res.val.stat = WISDOM

\* C21: Cast build fails with an arity error when given fewer than 3
\* tokens, so "cast fireball" is rejected, and with 3 or more tokens
\* succeeds with spell_name equal to tokens[1] and target equal to
\* tokens[2].
C21_Cast ==
    /\ (Built /\ Variant = "Cast") =>
            IF Len(Tokens) < 3
            THEN parsed # None /\ ~Res.ok /\ IsArityError(Res.val)
            ELSE /\ Succeeded
                 /\ Res.val.spell_name = Tokens[2]
                 /\ Res.val.target = Some(Tokens[3])
    /\ (ParseCalled /\ WordCount >= 1 /\ Typed[1] = CAST) =>
            IF WordCount < 3
            THEN parsed # None /\ ~Res.ok /\ IsArityError(Res.val)
            ELSE /\ Succeeded
                 /\ Res.val.spell_name = Typed[2]
                 /\ Res.val.target = Some(Typed[3])

\* "cast" with a spell and no target was rejected.
C21_Witness ==
    /\ Built
    /\ Variant = "Cast"
    /\ Len(Tokens) = 2
    /\ Tokens[1] = CAST
    /\ parsed # None
    /\ ~Res.ok

\* C22: for the optional-target commands (DefyDanger, DiscernRealities,
\* SpoutLore, Help), build with exactly 1 token succeeds with target
\* absent, and build with 2 or more tokens succeeds with target present
\* and equal to tokens[1]; these builds never fail on a non-empty token
\* list.
C22_OptionalTarget ==
    (Built /\ Variant \in OptionalTarget /\ Len(Tokens) >= 1) =>
        /\ Succeeded
        /\ Res.val.target =
                IF Len(Tokens) = 1 THEN None ELSE Some(Tokens[2])

\* Help was built from one token and has no target.
C22_Witness ==
    /\ Built
    /\ Variant = "Help"
    /\ Len(Tokens) = 1
    /\ Succeeded
    /\ Res.val.target = None

\* C23: Say build with 2 or more tokens sets target to all tokens after
\* the first, in order, joined by single spaces, so any run of whitespace
\* typed between words becomes one space; with 1 token it fails with an
\* arity error.
C23_Say ==
    /\ (Built /\ Variant = "Say" /\ Len(Tokens) >= 1) =>
            IF Len(Tokens) = 1
            THEN parsed # None /\ ~Res.ok /\ IsArityError(Res.val)
            ELSE Succeeded /\ Res.val.target = Spaced(Rest(Tokens))
    /\ (ParseCalled /\ WordCount >= 2 /\ Typed[1] = SAY) =>
            (Succeeded /\ Res.val.target = Spaced(Rest(Typed)))

\* Three words said with tabs and blanks between them came out one space
\* apart.
C23_Witness ==
    /\ ParseCalled
    /\ WordCount = 4
    /\ Typed[1] = SAY
    /\ \E i \in 1..Len(Line) : Line[i] = "\t"
    /\ Succeeded
    /\ Res.val.target = hello \o <<" ">> \o world \o <<" ">> \o again

\* C24: get(row, col) returns none, without failing, whenever row < 0,
\* col < 0, row >= number of rows or col >= number of columns, and
\* otherwise returns exactly the content of cell [row][col]; this holds for
\* every grid built by Map::new, grids with zero rows or zero columns
\* included.
C24_Get ==
    MapCalled("get") =>
        /\ ~aborted
        /\ ret = Some(IF \/ TheCall.row < 0
                         \/ TheCall.col < 0
                         \/ TheCall.row >= Rows(Was)
                         \/ TheCall.col >= Cols(Was)
                      THEN None
                      ELSE Was.grid[TheCall.row + 1][TheCall.col + 1])

\* A get of (0, 0) on a grid that has rows and no columns returned none.
C24_Witness ==
    /\ MapCalled("get")
    /\ Rows(Was) >= 1
    /\ Cols(Was) = 0
    /\ TheCall.row = 0
    /\ TheCall.col = 0
    /\ ret = Some(None)

\* C25 as stated: set(row, col, square) is a bounds-checked write: for
\* every row >= number of rows or col >= number of columns, row = number
\* of rows and col = number of columns included, it returns the error
\* "Index out of bounds." and leaves the grid unchanged, rather than
\* aborting.
C25_AsClaimed ==
    (/\ MapCalled("set")
     /\ TheCall.row >= Rows(Was) \/ TheCall.col >= Cols(Was))
        => /\ ~aborted
           /\ ret = Some(Err(INDEX_OUT_OF_BOUNDS))
           /\ Now = Was

\* C30: on a grid built by Map::new(rows, cols) every cell is empty and
\* there are rows rows of cols cells; a get changes nothing; after a
\* successful set(r, c, square) the cell (r, c) holds that square, every
\* other cell holds what it held before and the numbers of rows and
\* columns are unchanged; a set that fails changes nothing.
C30_SetThenGet ==
    /\ MapCalled("new") =>
            /\ Rows(Now) = AtLeastZero(TheCall.rows)
            /\ Rectangular(Now, AtLeastZero(TheCall.cols))
            /\ \A r \in GetIndices, c \in GetIndices : Cell(Now, r, c) = None
    /\ MapCalled("get") => Now = Was
    /\ SetSucceeded =>
            /\ Cell(Now, TheCall.row, TheCall.col) = Some(TheCall.square)
            /\ \A r \in GetIndices, c \in GetIndices :
                    <<r, c>> # <<TheCall.row, TheCall.col>> =>
                        Cell(Now, r, c) = Cell(Was, r, c)
            /\ Rows(Now) = Rows(Was)
            /\ Rectangular(Now, Cols(Was))
    /\ (MapCalled("set") /\ ~SetSucceeded) => Now = Was

\* A square was set on an empty cell of a map that held a square in another
\* cell of the same row.
C30_Witness ==
    /\ SetSucceeded
    /\ Cell(Was, TheCall.row, TheCall.col) = None
    /\ \E c \in GetIndices :
            /\ c # TheCall.col
            /\ Cell(Was, TheCall.row, c) # None
            /\ Cell(Now, TheCall.row, c) = Cell(Was, TheCall.row, c)
            /\ Cell(Now, TheCall.row, c) # Some(TheCall.square)

\* C26 as stated: after migrate_up has run on a database, load_map("Test
\* Area") on that database succeeds and returns a map named "Test Area"
\* with 3 rows.
C26_AsClaimed ==
    (/\ MapCalled("load_map")
     /\ pc = "migrated"
     /\ TheCall.map_name = "Test Area"
     /\ TheCall.dbOk)
        => /\ Unwrap(ret).ok
           /\ Unwrap(ret).val.name = "Test Area"
           /\ Len(Unwrap(ret).val.grid) = 3

\* C27: starting from a Travel-mode state whose room designates a Room
\* square of its map, with stored maps in which every portal's destination
\* holds a Room on the portal's target map, after any sequence of commands,
\* successful or failing, the loader failing at will, state.room designates
\* an in-bounds Room square of state.map: the player never rests on a
\* Portal square or an empty cell.
C27_RestsOnRoom == PortalsLeadToRooms => RestsOnRoom

\* The loader failed on a portal and the player is back on a room.
C27_Witness ==
    /\ PortalsLeadToRooms
    /\ PortalCase
    /\ LoadFailed
    /\ prior # None
    /\ RestsOnRoom

\* C28: state.map and state.room stay set together: a call of the
\* interpreter that starts with both set ends with both set, and a call
\* that starts with both unset sets neither, so this holds after any
\* sequence of calls.
C28_SetTogether ==
    /\ (Called /\ Pre.map # None /\ Pre.room # None) =>
            (map # None /\ room # None)
    /\ (Called /\ Pre.map = None /\ Pre.room = None) =>
            (map = None /\ room = None)

\* A portal led to an empty cell and the call ended with map and room set.
C28_Witness ==
    /\ Arrived
    /\ ArrivalSquare = None
    /\ Pre.map # None
    /\ Pre.room # None
    /\ map # None
    /\ room # None

\* C29: if a Go in direction d succeeds by moving the player from Room
\* square A to Room square B of the same map, then an immediately following
\* Go in the opposite direction succeeds, returns A's description, and
\* restores state.room to A with state.map unchanged.
C29_MovesInvert ==
    (MovedAToB /\ WentBack) =>
        /\ output =
              Some(Ok(HERO_WENT \o Cmd.target \o <<".", " ">> \o
                      Unwrap(Cell(Unwrap(Pre.map), SquareA[1],
                                  SquareA[2])).description))
        /\ room = Some(SquareA)
        /\ map = Pre.map

\* The player went north to a room and then south, back to the first room.
C29_Witness ==
    /\ MovedAToB
    /\ WentBack
    /\ PriorDelta = <<-1, 0>>
    /\ room = Some(SquareA)
    /\ output # None
    /\ Unwrap(output).ok

====
